---------------------------- MODULE Spec2Model ----------------------------
(***************************************************************************)
(* A model of the TCP segment codec of src/vmm/src/dumbo/pdu/tcp.rs:       *)
(* the checked constructor from_bytes, the MSS option scan, the setters    *)
(* and getters of the header fields, and the two-phase writer              *)
(* (write_incomplete_segment, finalize, write_segment).                    *)
(*                                                                         *)
(* A buffer is a sequence of bytes (0..255).  The source counts offsets    *)
(* from 0 and TLA+ sequences from 1: At(b, off) is the byte at offset off. *)
(* A u32 is held as a pair <<high 16 bits, low 16 bits>>, and an IPv4      *)
(* address as its four bytes, because TLC's integers are 32-bit signed.    *)
(***************************************************************************)
EXTENDS Integers, Naturals, Sequences, FiniteSets, TLC

VARIABLES
    buf,      \* the caller's backing memory, a sequence of bytes
    prior,    \* the content of buf when the last write call started
    seg,      \* the view held on buf: its kind and its logical length
    call,     \* the last write call: its arguments and its outcome
    parse,    \* the last from_bytes call: its arguments and its outcome
    scan,     \* the state of parse_mss_option_unchecked's loop
    tamper    \* what was done to the bytes after the last write

vars == <<buf, prior, seg, call, parse, scan, tamper>>

----------------------------------------------------------------------------
(* Constants of the source.                                                *)

SOURCE_PORT_OFFSET == 0
DESTINATION_PORT_OFFSET == 2
SEQ_NUMBER_OFFSET == 4
ACK_NUMBER_OFFSET == 8
DATAOFF_RSVD_NS_OFFSET == 12
FLAGS_AFTER_NS_OFFSET == 13
WINDOW_SIZE_OFFSET == 14
CHECKSUM_OFFSET == 16
URG_POINTER_OFFSET == 18
OPTIONS_OFFSET == 20
MAX_HEADER_LEN == 60
OPTION_KIND_EOL == 0
OPTION_KIND_NOP == 1
OPTION_KIND_MSS == 2
OPTION_LEN_MSS == 4
MSS_MIN == 100
\* u16::MAX, the value len() saturates at.
U16_MAX == 65535
\* ChecksumProto::Tcp, the protocol number of the pseudo-header.
PROTO_TCP == 6

----------------------------------------------------------------------------
(* Option<T>, and small helpers.                                           *)

None == << >>
Some(x) == <<x>>
IsSome(o) == Len(o) = 1
Unwrap(o) == o[1]

Min(a, b) == IF a <= b THEN a ELSE b

RECURSIVE BitAnd(_, _)
BitAnd(a, b) ==
    IF a = 0 \/ b = 0 THEN 0
    ELSE (a % 2) * (b % 2) + 2 * BitAnd(a \div 2, b \div 2)

----------------------------------------------------------------------------
(* The byte-order view (NetworkBytes / NetworkBytesMut / InnerBytes).      *)

At(b, off) == b[off + 1]

SetAt(b, off, v) == [b EXCEPT ![off + 1] = v]

ntohs_unchecked(b, off) == At(b, off) * 256 + At(b, off + 1)

htons_unchecked(b, off, v) ==
    [b EXCEPT ![off + 1] = v \div 256, ![off + 2] = v % 256]

ntohl_unchecked(b, off) == <<ntohs_unchecked(b, off), ntohs_unchecked(b, off + 2)>>

htonl_unchecked(b, off, v) == htons_unchecked(htons_unchecked(b, off, v[1]), off + 2, v[2])

\* split_at(n).1
split_at_tail(b, n) == SubSeq(b, n + 1, Len(b))

\* shrink_unchecked(n): the view keeps its first n bytes.
shrink_unchecked(b, n) == SubSeq(b, 1, n)

----------------------------------------------------------------------------
(* The getters.                                                            *)

source_port(b) == ntohs_unchecked(b, SOURCE_PORT_OFFSET)
destination_port(b) == ntohs_unchecked(b, DESTINATION_PORT_OFFSET)
sequence_number(b) == ntohl_unchecked(b, SEQ_NUMBER_OFFSET)
ack_number(b) == ntohl_unchecked(b, ACK_NUMBER_OFFSET)

header_len_rsvd_ns(b) ==
    LET value == At(b, DATAOFF_RSVD_NS_OFFSET)
        data_offset == value \div 16
        header_len == (data_offset * 4) % 256
        rsvd == BitAnd(value, 14)
        ns == BitAnd(value, 1) # 0
    IN  <<header_len, rsvd, ns>>

header_len(b) == header_len_rsvd_ns(b)[1]

\* Flags::from_bits_truncate: every one of the eight bits is a declared flag.
Flags_ALL == 255
flags_after_ns(b) == BitAnd(At(b, FLAGS_AFTER_NS_OFFSET), Flags_ALL)

window_size(b) == ntohs_unchecked(b, WINDOW_SIZE_OFFSET)
checksum(b) == ntohs_unchecked(b, CHECKSUM_OFFSET)
urgent_pointer(b) == ntohs_unchecked(b, URG_POINTER_OFFSET)

\* len(): the length of the view as a u16, saturating.
len(b) == IF Len(b) > U16_MAX THEN U16_MAX ELSE Len(b)

payload_unchecked(b, hl) == split_at_tail(b, hl)
payload(b) == payload_unchecked(b, header_len(b))

\* payload_len counting the header as its fixed part alone.
payload_len_fixed_header(b) == len(b) - OPTIONS_OFFSET

\* payload_len(): self.len() - header_len, a subtraction of u16s that
\* underflows when the result here is negative.
payload_len(b) == len(b) - header_len(b)
options_unchecked(b, hl) == SubSeq(b, OPTIONS_OFFSET + 1, hl)

----------------------------------------------------------------------------
(* The checksum engine (crate::dumbo::pdu::compute_checksum).              *)

\* The sum of the 16-bit big-endian words lo .. hi-1 of b (word w is at
\* offset 2*w), by halving so that the depth stays logarithmic.
RECURSIVE SumWords(_, _, _)
SumWords(b, lo, hi) ==
    IF hi <= lo THEN 0
    ELSE IF hi = lo + 1 THEN ntohs_unchecked(b, 2 * lo)
    ELSE LET mid == (lo + hi) \div 2
         IN  SumWords(b, lo, mid) + SumWords(b, mid, hi)

RECURSIVE FoldCarries(_)
FoldCarries(sum) ==
    IF sum \div 65536 # 0 THEN FoldCarries((sum % 65536) + (sum \div 65536)) ELSE sum

compute_checksum(b, src_addr, dst_addr) ==
    LET n == Len(b)
        pseudo == src_addr[1] * 256 + src_addr[2] + src_addr[3] * 256 + src_addr[4]
                  + dst_addr[1] * 256 + dst_addr[2] + dst_addr[3] * 256 + dst_addr[4]
                  + PROTO_TCP + n
        odd == IF n % 2 # 0 THEN At(b, n - 1) * 256 ELSE 0
        sum == pseudo + SumWords(b, 0, n \div 2) + odd
    IN  65535 - FoldCarries(sum)

----------------------------------------------------------------------------
(* from_bytes.                                                             *)

\* from_bytes with the header length checked against MAX_HEADER_LEN alone.
from_bytes_no_len(bytes, verify_checksum) ==
    IF Len(bytes) < OPTIONS_OFFSET THEN "SliceTooShort"
    ELSE LET hl == header_len(bytes)
         IN  IF hl < OPTIONS_OFFSET \/ hl > MAX_HEADER_LEN
             THEN "HeaderLen"
             ELSE IF IsSome(verify_checksum)
                     /\ compute_checksum(bytes, Unwrap(verify_checksum)[1],
                                         Unwrap(verify_checksum)[2]) # 0
                  THEN "Checksum"
                  ELSE "Ok"

\* from_bytes with the verification of the checksum left out.
from_bytes_no_verify(bytes, verify_checksum) ==
    IF Len(bytes) < OPTIONS_OFFSET THEN "SliceTooShort"
    ELSE LET hl == header_len(bytes)
         IN  IF hl < OPTIONS_OFFSET \/ hl > Min(MAX_HEADER_LEN, len(bytes))
             THEN "HeaderLen"
             ELSE "Ok"

from_bytes(bytes, verify_checksum) ==
    IF Len(bytes) < OPTIONS_OFFSET THEN "SliceTooShort"
    ELSE LET hl == header_len(bytes)
         IN  IF hl < OPTIONS_OFFSET \/ hl > Min(MAX_HEADER_LEN, len(bytes))
             THEN "HeaderLen"
             ELSE IF IsSome(verify_checksum)
                     /\ compute_checksum(bytes, Unwrap(verify_checksum)[1],
                                         Unwrap(verify_checksum)[2]) # 0
                  THEN "Checksum"
                  ELSE "Ok"

\* The ranges of offsets <<first, last>> that from_bytes reads, as the code
\* reaches them: the data-offset byte, and the whole segment for the checksum.
from_bytes_reads(bytes, verify_checksum) ==
    IF Len(bytes) < OPTIONS_OFFSET THEN {}
    ELSE LET hl == header_len(bytes)
         IN  {<<DATAOFF_RSVD_NS_OFFSET, DATAOFF_RSVD_NS_OFFSET>>}
             \cup (IF hl < OPTIONS_OFFSET \/ hl > Min(MAX_HEADER_LEN, len(bytes))
                      \/ ~IsSome(verify_checksum)
                   THEN {}
                   ELSE {<<0, Len(bytes) - 1>>})

----------------------------------------------------------------------------
(* The setters.                                                            *)

set_source_port(b, v) == htons_unchecked(b, SOURCE_PORT_OFFSET, v)
set_destination_port(b, v) == htons_unchecked(b, DESTINATION_PORT_OFFSET, v)
set_sequence_number(b, v) == htonl_unchecked(b, SEQ_NUMBER_OFFSET, v)
set_ack_number(b, v) == htonl_unchecked(b, ACK_NUMBER_OFFSET, v)

\* set_header_len_rsvd_ns shifting by one bit instead of two.
set_header_len_rsvd_ns_shl1(b, hl, ns) ==
    LET shifted == (hl * 2) % 256
        value == IF ns THEN shifted + 1 ELSE shifted
    IN  SetAt(b, DATAOFF_RSVD_NS_OFFSET, value)

set_header_len_rsvd_ns(b, hl, ns) ==
    LET shifted == (hl * 4) % 256
        value == IF ns THEN shifted + 1 ELSE shifted
    IN  SetAt(b, DATAOFF_RSVD_NS_OFFSET, value)

\* set_flags_after_ns storing the flags in the byte of the data offset.
set_flags_after_ns_at_dataoff(b, flags) == SetAt(b, DATAOFF_RSVD_NS_OFFSET, flags)

set_flags_after_ns(b, flags) == SetAt(b, FLAGS_AFTER_NS_OFFSET, flags)
set_window_size(b, v) == htons_unchecked(b, WINDOW_SIZE_OFFSET, v)
set_checksum(b, v) == htons_unchecked(b, CHECKSUM_OFFSET, v)
set_urgent_pointer(b, v) == htons_unchecked(b, URG_POINTER_OFFSET, v)

----------------------------------------------------------------------------
(* The payload source (a ByteBuffer): len() and read_to_slice(0, ..).  A   *)
(* source of p.len bytes whose byte at offset k is p.seed + k * p.stride    *)
(* (mod 256).                                                               *)

ByteBuffer_len(p) == p.len
ByteBuffer_at(p, k) == (p.seed + k * p.stride) % 256

\* read_to_slice(0, &mut bytes[from .. from + count])
read_to_slice(b, p, from, count) ==
    [i \in 1 .. Len(b) |->
        IF i - 1 >= from /\ i - 1 < from + count
        THEN ByteBuffer_at(p, i - 1 - from)
        ELSE b[i]]

----------------------------------------------------------------------------
(* write_incomplete_segment.  a is the record of its arguments:            *)
(*   seq_number, ack_number, flags_after_ns, window_size, mss_option       *)
(*   (None or Some(u16)), mss_remaining, payload (None or                  *)
(*   Some(<<payload_buf, max_payload_bytes>>)).                            *)
(* The result is the outcome, the bytes of the backing buffer afterwards,  *)
(* the length the view was shrunk to and the number of payload bytes       *)
(* copied.                                                                 *)

\* mss_left_after_option refusing a budget that the option uses up.
mss_left_after_option_le(a) ==
    IF IsSome(a.mss_option)
    THEN (IF a.mss_remaining <= OPTION_LEN_MSS THEN None
          ELSE Some(a.mss_remaining - OPTION_LEN_MSS))
    ELSE Some(a.mss_remaining)

\* mss_left after the option's cost: checked_sub(OPTION_LEN_MSS)
mss_left_after_option(a) ==
    IF IsSome(a.mss_option)
    THEN (IF a.mss_remaining < OPTION_LEN_MSS THEN None
          ELSE Some(a.mss_remaining - OPTION_LEN_MSS))
    ELSE Some(a.mss_remaining)

options_len(a) == IF IsSome(a.mss_option) THEN OPTION_LEN_MSS ELSE 0

\* segment_len without the bytes of the options.
min_segment_len_no_options(a) == OPTIONS_OFFSET

\* segment_len before the payload: the header and the options.
min_segment_len(a) == OPTIONS_OFFSET + options_len(a)

\* write_header_fields with the urgent pointer forgotten.
write_header_fields_no_urg(b, a) ==
    set_window_size(
      set_flags_after_ns(
        set_header_len_rsvd_ns(
          set_ack_number(
            set_sequence_number(b, a.seq_number),
            a.ack_number),
          OPTIONS_OFFSET + options_len(a), FALSE),
        a.flags_after_ns),
      a.window_size)

\* The header fields written by the chain of setters.
write_header_fields(b, a) ==
    set_urgent_pointer(
      set_window_size(
        set_flags_after_ns(
          set_header_len_rsvd_ns(
            set_ack_number(
              set_sequence_number(b, a.seq_number),
              a.ack_number),
            OPTIONS_OFFSET + options_len(a), FALSE),
          a.flags_after_ns),
        a.window_size),
      0)

\* write_mss_option storing the value in the byte order of the host.
write_mss_option_swapped(b, a) ==
    IF IsSome(a.mss_option)
    THEN SetAt(SetAt(SetAt(SetAt(b, OPTIONS_OFFSET, OPTION_KIND_MSS),
                           OPTIONS_OFFSET + 1, OPTION_LEN_MSS),
                     OPTIONS_OFFSET + 2, Unwrap(a.mss_option) % 256),
               OPTIONS_OFFSET + 3, Unwrap(a.mss_option) \div 256)
    ELSE b

write_mss_option(b, a) ==
    IF IsSome(a.mss_option)
    THEN htons_unchecked(
           SetAt(SetAt(b, OPTIONS_OFFSET, OPTION_KIND_MSS),
                 OPTIONS_OFFSET + 1, OPTION_LEN_MSS),
           OPTIONS_OFFSET + 2, Unwrap(a.mss_option))
    ELSE b

\* room_for_payload without the MSS budget.
room_for_payload_no_mss(b, a, segment_len, mss_left) ==
    LET payload_buf == Unwrap(a.payload)[1]
        max_payload_bytes == Unwrap(a.payload)[2]
        left_to_read == Min(ByteBuffer_len(payload_buf), max_payload_bytes)
        room == len(b) - segment_len
    IN  Min(room, left_to_read)

\* room_for_payload, for a supplied payload.
room_for_payload(b, a, segment_len, mss_left) ==
    LET payload_buf == Unwrap(a.payload)[1]
        max_payload_bytes == Unwrap(a.payload)[2]
        left_to_read == Min(ByteBuffer_len(payload_buf), max_payload_bytes)
        room == Min(len(b) - segment_len, mss_left)
    IN  Min(room, left_to_read)

\* write_incomplete_segment writing a segment without payload where the
\* room for a supplied payload is 0.
write_incomplete_segment_silent_empty(b, a) ==
    LET left == mss_left_after_option(a)
        segment_len == min_segment_len(a)
    IN  IF ~IsSome(left)
        THEN [res |-> "MssRemaining", buf |-> b, len |-> Len(b), copied |-> 0]
        ELSE IF Len(b) < segment_len
        THEN [res |-> "SliceTooShort", buf |-> b, len |-> Len(b), copied |-> 0]
        ELSE LET b1 == write_mss_option(write_header_fields(b, a), a)
                 room == IF IsSome(a.payload)
                         THEN room_for_payload(b1, a, segment_len, Unwrap(left))
                         ELSE 0
             IN  [res |-> "Ok",
                  buf |-> IF room > 0
                          THEN read_to_slice(b1, Unwrap(a.payload)[1], segment_len, room)
                          ELSE b1,
                  len |-> segment_len + room, copied |-> room]

\* write_incomplete_segment writing the sequence and ack numbers before its
\* two checks.
write_incomplete_segment_late_checks(b, a) ==
    LET left == mss_left_after_option(a)
        segment_len == min_segment_len(a)
        b0 == IF Len(b) >= SEQ_NUMBER_OFFSET + 8
              THEN set_ack_number(set_sequence_number(b, a.seq_number), a.ack_number)
              ELSE b
    IN  IF ~IsSome(left)
        THEN [res |-> "MssRemaining", buf |-> b0, len |-> Len(b), copied |-> 0]
        ELSE IF Len(b) < segment_len
        THEN [res |-> "SliceTooShort", buf |-> b0, len |-> Len(b), copied |-> 0]
        ELSE LET b1 == write_mss_option(write_header_fields(b, a), a)
             IN  IF IsSome(a.payload)
                 THEN LET room == room_for_payload(b1, a, segment_len, Unwrap(left))
                      IN  IF room = 0
                          THEN [res |-> "EmptyPayload", buf |-> b1,
                                len |-> Len(b), copied |-> 0]
                          ELSE [res |-> "Ok",
                                buf |-> read_to_slice(b1, Unwrap(a.payload)[1],
                                                      segment_len, room),
                                len |-> segment_len + room, copied |-> room]
                 ELSE [res |-> "Ok", buf |-> b1, len |-> segment_len, copied |-> 0]

write_incomplete_segment(b, a) ==
    LET left == mss_left_after_option(a)
        segment_len == min_segment_len(a)
    IN  IF ~IsSome(left)
        THEN [res |-> "MssRemaining", buf |-> b, len |-> Len(b), copied |-> 0]
        ELSE IF Len(b) < segment_len
        THEN [res |-> "SliceTooShort", buf |-> b, len |-> Len(b), copied |-> 0]
        ELSE LET b1 == write_mss_option(write_header_fields(b, a), a)
             IN  IF IsSome(a.payload)
                 THEN LET room == room_for_payload(b1, a, segment_len, Unwrap(left))
                      IN  IF room = 0
                          THEN [res |-> "EmptyPayload", buf |-> b1,
                                len |-> Len(b), copied |-> 0]
                          ELSE [res |-> "Ok",
                                buf |-> read_to_slice(b1, Unwrap(a.payload)[1],
                                                      segment_len, room),
                                len |-> segment_len + room, copied |-> room]
                 ELSE [res |-> "Ok", buf |-> b1, len |-> segment_len, copied |-> 0]

----------------------------------------------------------------------------
(* finalize, on the staged segment that is the first n bytes of b.         *)

\* finalize computing the checksum over the checksum bytes it found.
finalize_no_zero(b, n, src_port, dst_port, compute) ==
    LET b1 == set_destination_port(set_source_port(b, src_port), dst_port)
    IN  IF IsSome(compute)
        THEN set_checksum(b1, compute_checksum(shrink_unchecked(b1, n),
                                               Unwrap(compute)[1], Unwrap(compute)[2]))
        ELSE b1

\* finalize clearing the checksum when it is not asked to compute it.
finalize_always_zero(b, n, src_port, dst_port, compute) ==
    LET b1 == set_destination_port(set_source_port(b, src_port), dst_port)
        b2 == set_checksum(b1, 0)
    IN  IF IsSome(compute)
        THEN set_checksum(b2, compute_checksum(shrink_unchecked(b2, n),
                                               Unwrap(compute)[1], Unwrap(compute)[2]))
        ELSE b2

finalize(b, n, src_port, dst_port, compute) ==
    LET b1 == set_destination_port(set_source_port(b, src_port), dst_port)
    IN  IF IsSome(compute)
        THEN LET b2 == set_checksum(b1, 0)
                 csum == compute_checksum(shrink_unchecked(b2, n),
                                          Unwrap(compute)[1], Unwrap(compute)[2])
             IN  set_checksum(b2, csum)
        ELSE b1

\* write_segment: write_incomplete_segment(..)?.finalize(..)
write_segment(b, a, src_port, dst_port, compute) ==
    LET w == write_incomplete_segment(b, a)
    IN  IF w.res = "Ok"
        THEN [w EXCEPT !.buf = finalize(w.buf, w.len, src_port, dst_port, compute)]
        ELSE w

----------------------------------------------------------------------------
(* parse_mss_option_unchecked(header_len), one iteration of its loop at a  *)
(* time.  b is the segment's bytes; the options slice is                   *)
(* b[OPTIONS_OFFSET .. hl], so its index i is offset OPTIONS_OFFSET + i of *)
(* the segment.  s is the loop's state: pc ("loop", "done", or "panic"   *)
(* for an index out of range), hl, the scan index i, the number of         *)
(* iterations run, the offsets read so far and the result.                 *)

NoResult == [tag |-> "none", mss |-> 0]
OkNone == [tag |-> "Ok(None)", mss |-> 0]
OkSome(v) == [tag |-> "Ok(Some)", mss |-> v]
ErrMssOption == [tag |-> "Err(MssOption)", mss |-> 0]

ScanIdle == [pc |-> "idle", hl |-> 0, i |-> 0, iters |-> 0, reads |-> {}, res |-> NoResult]

\* The loop's condition without the room for the option: i < b.len()
scan_continues_any_room(i, options_len_) == i < options_len_

\* The loop's condition: i + 3 < b.len()
scan_continues(i, options_len_) == i + 3 < options_len_

\* let b = self.options_unchecked(header_len); let mut i = 0;
scan_start(b, hl) ==
    IF hl < OPTIONS_OFFSET \/ hl > Len(b)
    THEN [ScanIdle EXCEPT !.pc = "panic", !.hl = hl]
    ELSE [ScanIdle EXCEPT !.pc = "loop", !.hl = hl]

\* The check of the value against MSS_MIN letting MSS_MIN itself fail.
mss_result_le(mss) == IF mss <= MSS_MIN THEN ErrMssOption ELSE OkSome(mss)

\* if mss < MSS_MIN { return Err(MssOption) } return Ok(Some(mss))
mss_result(mss) == IF mss < MSS_MIN THEN ErrMssOption ELSE OkSome(mss)

\* The skip of an unknown option counting the length byte as the length of
\* the data alone.
skip_len_data_only(b, off) == At(b, off + 1) + 2

\* The bytes skipped for an unknown option: b[i + 1]
skip_len(b, off) == At(b, off + 1)

\* One evaluation of the loop's condition and, when it holds, of its body.
scan_step(b, s) ==
    LET n == s.hl - OPTIONS_OFFSET
        off == OPTIONS_OFFSET + s.i
        t == [s EXCEPT !.iters = s.iters + 1]
    IN  IF ~scan_continues(s.i, n)
        THEN [s EXCEPT !.pc = "done", !.res = OkNone]
        ELSE IF s.i >= n
        THEN [t EXCEPT !.pc = "panic"]
        ELSE LET kind == At(b, off)
                 r1 == s.reads \cup {off}
             IN  IF kind = OPTION_KIND_EOL
                 THEN [t EXCEPT !.pc = "done", !.reads = r1, !.res = OkNone]
                 ELSE IF kind = OPTION_KIND_NOP
                 THEN [t EXCEPT !.i = s.i + 1, !.reads = r1]
                 ELSE IF kind = OPTION_KIND_MSS
                 THEN IF s.i + 3 >= n
                      THEN [t EXCEPT !.pc = "panic", !.reads = r1]
                      ELSE LET mss == ntohs_unchecked(b, off + 2)
                           IN  [t EXCEPT !.pc = "done",
                                         !.reads = r1 \cup {off + 2, off + 3},
                                         !.res = mss_result(mss)]
                 ELSE IF s.i + 1 >= n
                      THEN [t EXCEPT !.pc = "panic", !.reads = r1]
                      ELSE [t EXCEPT !.i = s.i + skip_len(b, off),
                                     !.reads = r1 \cup {off + 1}]

\* payload(): split_at(header_len) panics when header_len exceeds the length.
NoPayload == [called |-> FALSE, panic |-> FALSE, at |-> 0, size |-> 0]
payload_call(b) ==
    LET hl == header_len(b)
    IN  IF hl > Len(b)
        THEN [called |-> TRUE, panic |-> TRUE, at |-> hl, size |-> 0]
        ELSE [called |-> TRUE, panic |-> FALSE, at |-> hl, size |-> Len(payload(b))]

----------------------------------------------------------------------------
(* The bounds of the model and the inputs the actions draw from.           *)

\* The cap on the iterations of the option scan that the model follows.
MaxIters == 8
\* The longest of the small buffers a segment is written into.
MaxSmallBuf == 26
\* How many offsets from each end of a payload the tampering may hit.
MaxFlipEdge == 1

Fill(n, v) == [i \in 1 .. n |-> v]

\* Header values: those of the source's test, and every field at its maximum.
TestProfile ==
    [src_port |-> 1234, dst_port |-> 5678, seq_number |-> <<169, 35638>>,
     ack_number |-> <<527, 29071>>, flags_after_ns |-> 6, window_size |-> 19999,
     addrs |-> << <<10, 1, 2, 3>>, <<192, 168, 44, 77>> >>]
MaxProfile ==
    [src_port |-> 65535, dst_port |-> 65535, seq_number |-> <<65535, 65535>>,
     ack_number |-> <<65535, 65535>>, flags_after_ns |-> 255, window_size |-> 65535,
     addrs |-> << <<255, 255, 255, 255>>, <<255, 255, 255, 255>> >>]
Profiles == {TestProfile, MaxProfile}

\* Payload sources (see ByteBuffer_at).
ByteBuf(n, seed, stride) == [len |-> n, seed |-> seed, stride |-> stride]

\* The arguments of write_incomplete_segment over the given choices.
WriteArgs(profiles, mss_options, mss_remainings, payloads) ==
    { [seq_number |-> pr.seq_number, ack_number |-> pr.ack_number,
       flags_after_ns |-> pr.flags_after_ns, window_size |-> pr.window_size,
       mss_option |-> mo, mss_remaining |-> mr, payload |-> pl] :
      pr \in profiles, mo \in mss_options, mr \in mss_remainings, pl \in payloads }

\* The arguments of finalize: the ports, and the addresses or None.
FinalArgs(profiles) ==
    UNION { { [src_port |-> pr.src_port, dst_port |-> pr.dst_port, compute |-> c,
               done |-> FALSE] : c \in {None, Some(pr.addrs)} } : pr \in profiles }

PayloadsOf(bufs, maxes) == {None} \cup {Some(<<p, m>>) : p \in bufs, m \in maxes}

\* A caller: the buffer it owns and the write call it is about to make.
Callers(bufs, args, finals) ==
    { [buf |-> b, a |-> a, f |-> f] : b \in bufs, a \in args, f \in finals }

\* Small buffers (too short for a header, a header with and without the
\* option and a few bytes of room) under every combination of the arguments.
SmallCallers ==
    UNION { Callers({Fill(n, v) : n \in {1} \cup (19 .. MaxSmallBuf), v \in {1, 255}},
                    WriteArgs({pr}, {None, Some(1460)}, {0, 3, 4, 6, U16_MAX},
                              PayloadsOf({ByteBuf(0, 0, 0), ByteBuf(1, 255, 0),
                                          ByteBuf(4, 254, 1)},
                                         {0, 2, U16_MAX})),
                    FinalArgs({pr})) : pr \in Profiles }

\* The calls of the source's test: a buffer of 1460 bytes of 1, the option,
\* mss_remaining 1460, and a payload of 1000 or of 2000 bytes.
TestCallers ==
    Callers({Fill(1460, 1)},
            WriteArgs({TestProfile}, {Some(1460)}, {1460},
                      PayloadsOf({ByteBuf(1000, 2, 0), ByteBuf(2000, 3, 0)}, {2000})),
            FinalArgs({TestProfile}))

\* A buffer longer than a u16 can count, with a payload and a budget that
\* fill what the writer sees of it.
LongCallers ==
    Callers({Fill(U16_MAX + 1, 1)},
            WriteArgs({TestProfile}, {None, Some(1460)}, {U16_MAX},
                      {Some(<<ByteBuf(U16_MAX, 7, 1), U16_MAX>>)}),
            {f \in FinalArgs({TestProfile}) : IsSome(f.compute)})

VerifyArgs == {None} \cup {Some(pr.addrs) : pr \in Profiles}

----------------------------------------------------------------------------
(* The state machine of the write path.                                    *)

NoFinal == [src_port |-> 0, dst_port |-> 0, compute |-> None, done |-> FALSE]
NoParse == [called |-> FALSE, verify |-> None, res |-> "none", reads |-> {},
            payload |-> NoPayload]
NoTamper == [kind |-> "none", off |-> 0, val |-> 0]

\* The bytes of the view held on buf.
View == shrink_unchecked(buf, seg.len)

\* Before the call: call holds the arguments the caller is about to pass.
InitOf(callers) ==
    /\ \E c \in callers :
         /\ buf = c.buf
         /\ call = [res |-> "none", a |-> c.a, copied |-> 0, final |-> c.f]
    /\ prior = buf
    /\ seg = [kind |-> "raw", len |-> Len(buf)]
    /\ parse = NoParse
    /\ scan = ScanIdle
    /\ tamper = NoTamper

Init == InitOf(SmallCallers \cup TestCallers \cup LongCallers)

\* The state a write call leaves: the view is shrunk to the segment on
\* success and the caller keeps its buffer as the call left it on failure.
AfterWrite(w, fin, kind) ==
    /\ prior' = buf
    /\ buf' = w.buf
    /\ seg' = IF w.res = "Ok" THEN [kind |-> kind, len |-> w.len]
              ELSE [kind |-> "raw", len |-> Len(buf)]
    /\ call' = [call EXCEPT !.res = w.res, !.copied = w.copied, !.final = fin]
    /\ parse' = NoParse
    /\ scan' = ScanIdle
    /\ tamper' = NoTamper

WriteIncompleteSegment ==
    /\ call.res = "none"
    /\ AfterWrite(write_incomplete_segment(buf, call.a), call.final, "incomplete")

Finalize ==
    /\ seg.kind = "incomplete"
    /\ buf' = finalize(buf, seg.len, call.final.src_port, call.final.dst_port,
                       call.final.compute)
    /\ seg' = [seg EXCEPT !.kind = "segment"]
    /\ call' = [call EXCEPT !.final.done = TRUE]
    /\ UNCHANGED <<prior, parse, scan, tamper>>

WriteSegment ==
    /\ call.res = "none"
    /\ LET f == call.final
           w == write_segment(buf, call.a, f.src_port, f.dst_port, f.compute)
       IN  AfterWrite(w, IF w.res = "Ok" THEN [f EXCEPT !.done = TRUE] ELSE f, "segment")

\* from_bytes on the bytes of the view.
FromBytes(verify) ==
    /\ seg.kind # "incomplete"
    /\ parse' = [called |-> TRUE, verify |-> verify, res |-> from_bytes(View, verify),
                 reads |-> from_bytes_reads(View, verify), payload |-> NoPayload]
    /\ scan' = ScanIdle
    /\ UNCHANGED <<buf, prior, seg, call, tamper>>

\* The offsets of the payload that the tampering may hit: the first and the
\* last MaxFlipEdge of them.
FlipOffsets ==
    LET hl == OPTIONS_OFFSET + options_len(call.a)
    IN  {k \in (hl .. hl + MaxFlipEdge - 1) \cup (seg.len - MaxFlipEdge .. seg.len - 1) :
            k >= hl /\ k < seg.len}

\* The values a byte b is changed to: its successor, its predecessor and
\* its complement.
FlipValues(b) == {(b + 1) % 256, (b + 255) % 256, 255 - b}

\* One payload byte of a finished segment is changed on the wire.
FlipPayloadByte(k, v) ==
    /\ seg.kind = "segment"
    /\ tamper.kind = "none"
    /\ v # At(buf, k)
    /\ buf' = SetAt(buf, k, v)
    /\ tamper' = [kind |-> "flip", off |-> k, val |-> v]
    /\ parse' = NoParse
    /\ scan' = ScanIdle
    /\ UNCHANGED <<prior, seg, call>>

Next ==
    \/ WriteIncompleteSegment
    \/ Finalize
    \/ WriteSegment
    \/ \E v \in VerifyArgs : FromBytes(v)
    \/ \E k \in FlipOffsets : \E v \in FlipValues(At(buf, k)) : FlipPayloadByte(k, v)

Spec == Init /\ [][Next]_vars

----------------------------------------------------------------------------
(* The state machine of the read path: from_bytes, payload() and the       *)
(* option scan on bytes received from the wire.                            *)

\* A received buffer of n bytes: the data-offset byte d, the option bytes
\* opts from offset OPTIONS_OFFSET on, and v everywhere else.
WireBuf(n, d, opts, v) ==
    [i \in 1 .. n |->
        IF i = DATAOFF_RSVD_NS_OFFSET + 1 THEN d
        ELSE IF i > OPTIONS_OFFSET /\ i <= OPTIONS_OFFSET + Len(opts) THEN opts[i - OPTIONS_OFFSET]
        ELSE v]

\* Every length around the limits of from_bytes with every data offset, the
\* reserved bits and NS clear or set.
HeaderWireBufs ==
    { WireBuf(n, 16 * d + r, << >>, v) :
        n \in {0, 1, 19, 20, 21, 23, 24, 59, 60, 61}, d \in 0 .. 15, r \in {0, 15},
        v \in {0, 255} }

\* The bytes an option region is made of: the three known kinds, two unknown
\* ones that are option lengths as well, and the bytes of the MSS values
\* around MSS_MIN.
OptionBytes == {0, 1, 2, 3, 4, 99, 100, 255}
Words(S) == {<<a, b, c, d>> : a \in S, b \in S, c \in S, d \in S}
SecondWords ==
    {<<2, 4, 0, 99>>, <<2, 4, 0, 100>>, <<0, 2, 4, 1>>, <<1, 1, 1, 1>>, <<3, 0, 2, 4>>,
     <<255, 255, 255, 255>>}

\* Segments with one word of options (any bytes) or two (any small bytes,
\* then a chosen word), with and without a byte of payload.
OptionWireBufs ==
    { WireBuf(24 + k, 96, w, 0) : w \in Words(OptionBytes), k \in {0, 1} }
    \cup { WireBuf(28 + k, 112, w \o x, 0) :
             w \in Words({0, 1, 2, 3}), x \in SecondWords, k \in {0, 1} }

\* A received buffer longer than a u16 can count.
LongWireBufs == {WireBuf(U16_MAX + 5, 80, << >>, 0)}

ParseInit ==
    /\ buf \in HeaderWireBufs \cup OptionWireBufs \cup LongWireBufs
    /\ prior = buf
    /\ seg = [kind |-> "raw", len |-> Len(buf)]
    /\ call = [res |-> "none"]
    /\ parse = NoParse
    /\ scan = ScanIdle
    /\ tamper = NoTamper

\* payload() on a segment that from_bytes accepted.
Payload ==
    /\ parse.res = "Ok"
    /\ ~parse.payload.called
    /\ parse' = [parse EXCEPT !.payload = payload_call(View)]
    /\ UNCHANGED <<buf, prior, seg, call, scan, tamper>>

\* parse_mss_option_unchecked(header_len()) on a segment that from_bytes
\* accepted: the call, then one iteration of its loop per step.
ParseMssStart ==
    /\ parse.res = "Ok"
    /\ scan.pc = "idle"
    /\ scan' = scan_start(View, header_len(View))
    /\ UNCHANGED <<buf, prior, seg, call, parse, tamper>>

ParseMssStep ==
    /\ scan.pc = "loop"
    /\ scan.iters < MaxIters
    /\ scan' = scan_step(View, scan)
    /\ UNCHANGED <<buf, prior, seg, call, parse, tamper>>

ParseNext ==
    \/ \E v \in {None, Some(TestProfile.addrs)} : FromBytes(v)
    \/ Payload
    \/ ParseMssStart
    \/ ParseMssStep

ParseSpec == ParseInit /\ [][ParseNext]_vars

----------------------------------------------------------------------------
(* The state machine of the setters: a setter on from_bytes_unchecked(buf) *)
(* and from_bytes on the bytes it leaves.                                  *)

\* The largest header_len handed to set_header_len_rsvd_ns.
MaxSetHeaderLen == 64

SetBufs == {Fill(n, v) : n \in {20, 59, 60, 61, 100}, v \in {0, 255}}

SetInit ==
    /\ buf \in SetBufs
    /\ prior = buf
    /\ seg = [kind |-> "raw", len |-> Len(buf)]
    /\ call = [res |-> "none"]
    /\ parse = NoParse
    /\ scan = ScanIdle
    /\ tamper = NoTamper

SetHeaderLenRsvdNs(hl, ns) ==
    /\ seg.kind = "raw"
    /\ Len(buf) > DATAOFF_RSVD_NS_OFFSET
    /\ buf' = set_header_len_rsvd_ns(buf, hl, ns)
    /\ tamper' = [kind |-> "set_header_len_rsvd_ns", off |-> hl, val |-> IF ns THEN 1 ELSE 0]
    /\ parse' = NoParse
    /\ scan' = ScanIdle
    /\ UNCHANGED <<prior, seg, call>>

SetNext ==
    \/ \E hl \in 0 .. MaxSetHeaderLen, ns \in BOOLEAN : SetHeaderLenRsvdNs(hl, ns)
    \/ \E v \in {None, Some(TestProfile.addrs)} : FromBytes(v)

SetSpec == SetInit /\ [][SetNext]_vars

----------------------------------------------------------------------------
(* The state machine of the setters and getters: any sequence of setters   *)
(* on from_bytes_unchecked(buf); call.set keeps, for each field, the value *)
(* last given to its setter (None before the first call).                  *)

Fields ==
    {"source_port", "destination_port", "sequence_number", "ack_number",
     "header_len_rsvd_ns", "flags_after_ns", "window_size", "checksum",
     "urgent_pointer"}

\* The header lengths a caller may set: the multiples of 4 a data offset holds.
HeaderLens == {4 * k : k \in 0 .. 15}

GetSetInit ==
    /\ buf \in {Fill(20, 0), Fill(20, 255)}
    /\ prior = buf
    /\ seg = [kind |-> "raw", len |-> Len(buf)]
    /\ call = [res |-> "none", set |-> [f \in Fields |-> None]]
    /\ parse = NoParse
    /\ scan = ScanIdle
    /\ tamper = NoTamper

\* A call of the setter of field, given v, that leaves the bytes b.
SetterCall(field, b, v) ==
    /\ buf' = b
    /\ call' = [call EXCEPT !.set[field] = Some(v)]
    /\ UNCHANGED <<prior, seg, parse, scan, tamper>>

SetSourcePort(v) == SetterCall("source_port", set_source_port(buf, v), v)
SetDestinationPort(v) == SetterCall("destination_port", set_destination_port(buf, v), v)
SetSequenceNumber(v) == SetterCall("sequence_number", set_sequence_number(buf, v), v)
SetAckNumber(v) == SetterCall("ack_number", set_ack_number(buf, v), v)
SetHeaderLen(hl, ns) ==
    SetterCall("header_len_rsvd_ns", set_header_len_rsvd_ns(buf, hl, ns), <<hl, ns>>)
SetFlagsAfterNs(v) == SetterCall("flags_after_ns", set_flags_after_ns(buf, v), v)
SetWindowSize(v) == SetterCall("window_size", set_window_size(buf, v), v)
SetChecksum(v) == SetterCall("checksum", set_checksum(buf, v), v)
SetUrgentPointer(v) == SetterCall("urgent_pointer", set_urgent_pointer(buf, v), v)

\* The values are those of the source's test, with a second value for the
\* flags (every bit) and for the checksum (0).
GetSetNext ==
    \/ SetSourcePort(123)
    \/ SetDestinationPort(322)
    \/ SetSequenceNumber(<<18, 54919>>)
    \/ SetAckNumber(<<5, 17554>>)
    \/ \E hl \in HeaderLens, ns \in BOOLEAN : SetHeaderLen(hl, ns)
    \/ \E v \in {34, 255} : SetFlagsAfterNs(v)
    \/ SetWindowSize(60000)
    \/ \E v \in {4321, 0} : SetChecksum(v)
    \/ SetUrgentPointer(5554)

GetSetSpec == GetSetInit /\ [][GetSetNext]_vars

----------------------------------------------------------------------------
(* The state machine of a segment written and read back: write_segment,    *)
(* from_bytes on the bytes it produced, and the option scan.               *)

\* The values of mss_option: around MSS_MIN, the value of the source's test
\* and the ends of a u16.
MssValues == {0, 99, 100, 256, 1460, U16_MAX}

MssCallers ==
    UNION { Callers({Fill(n, v) : n \in {20, 24, 26}, v \in {0, 255}},
                    WriteArgs({pr}, {None} \cup {Some(v) : v \in MssValues}, {4, 1460},
                              {None, Some(<<ByteBuf(4, 254, 1), 2>>)}),
                    FinalArgs({pr})) : pr \in Profiles }

MssInit == InitOf(MssCallers)

MssNext ==
    \/ WriteSegment
    \/ \E v \in VerifyArgs : (seg.kind = "segment" /\ FromBytes(v))
    \/ ParseMssStart
    \/ ParseMssStep

MssSpec == MssInit /\ [][MssNext]_vars

----------------------------------------------------------------------------
(* The claims.                                                             *)

\* What the claims say of a write call, in the words of its arguments.
CallH == OPTIONS_OFFSET + (IF IsSome(call.a.mss_option) THEN 4 ELSE 0)
CallO == IF IsSome(call.a.mss_option) THEN 4 ELSE 0
\* The first n bytes of the payload source p.
PayloadPrefix(p, n) == [k \in 1 .. n |-> ByteBuffer_at(p, k - 1)]
\* A segment that write_segment (or finalize) finished with a checksum and
\* that nothing has touched since.
Finished == seg.kind = "segment" /\ tamper.kind = "none"
FinishedWithChecksum == Finished /\ IsSome(call.final.compute)

C2_ScanAdvances ==
    [][(scan.pc = "loop" /\ scan'.pc = "loop" /\ scan'.iters = scan.iters + 1)
       => scan'.i > scan.i]_vars

\* C3: the parse path never panics and never reads out of range: from_bytes
\* returns Ok or a TcpError and reads inside the buffer, the option scan of
\* an accepted segment reads only offsets of the options region
\* [20, header_len), and payload() slices at header_len <= the length.
C3_NoOutOfRange ==
    /\ parse.called
       => /\ parse.res \in {"Ok", "SliceTooShort", "HeaderLen", "Checksum"}
          /\ \A r \in parse.reads : 0 <= r[1] /\ r[2] < Len(View)
    /\ scan.pc # "idle"
       => /\ scan.pc # "panic"
          /\ scan.hl <= Len(View)
          /\ \A k \in scan.reads : OPTIONS_OFFSET <= k /\ k < scan.hl
    /\ parse.payload.called
       => /\ ~parse.payload.panic
          /\ parse.payload.at <= Len(View)

\* C3's case: the scan of an accepted segment has read an MSS option that
\* ends with the options region, and payload() has been taken.
C3_Witness ==
    /\ parse.res = "Ok" /\ parse.payload.called
    /\ scan.pc = "done" /\ scan.res.tag = "Ok(Some)"
    /\ scan.hl - 1 \in scan.reads /\ scan.i > 0

\* The outcome C4 states for a buffer of n bytes whose data-offset nibble is d.
C4_Outcome(n, d) ==
    IF n < 20 THEN "SliceTooShort"
    ELSE IF 4 * d < 20 \/ 4 * d > Min(60, n) THEN "HeaderLen"
    ELSE "Ok"

\* C4: from_bytes(buf, None) is decided by the length and the data-offset
\* nibble alone: SliceTooShort exactly when the length is below 20, otherwise
\* HeaderLen exactly when 4 * nibble is below 20 or above min(60, length),
\* otherwise Ok; with addresses the same two checks come first, and Checksum
\* is returned only for a buffer that passes both.
C4_FromBytesOutcome ==
    parse.called
    => LET n == Len(View)
           d == IF n > DATAOFF_RSVD_NS_OFFSET
                THEN At(View, DATAOFF_RSVD_NS_OFFSET) \div 16 ELSE 0
           e == C4_Outcome(n, d)
       IN  IF IsSome(parse.verify)
           THEN IF e = "Ok" THEN parse.res \in {"Ok", "Checksum"} ELSE parse.res = e
           ELSE parse.res = e

\* C4's case: from_bytes with addresses has returned Checksum for a segment
\* whose header length equals the length of the buffer.
C4_Witness ==
    /\ parse.called /\ IsSome(parse.verify) /\ parse.res = "Checksum"
    /\ Len(View) = 24 /\ At(View, DATAOFF_RSVD_NS_OFFSET) = 96

\* A from_bytes(.., None) call on a buffer of at least 60 bytes whose header
\* length was just set with set_header_len_rsvd_ns(h, false).
C5_Case(h) ==
    /\ tamper.kind = "set_header_len_rsvd_ns" /\ tamper.off = h /\ tamper.val = 0
    /\ Len(buf) >= 60
    /\ parse.called /\ ~IsSome(parse.verify)

\* C5 as stated: after set_header_len_rsvd_ns(h, false) on a buffer of at
\* least 60 bytes, from_bytes fails with HeaderLen for h = 19, 0, 61 and 64
\* and succeeds for h = 20 and 60.
C5_Original ==
    /\ \A h \in {19, 0, 61, 64} : C5_Case(h) => parse.res = "HeaderLen"
    /\ \A h \in {20, 60} : C5_Case(h) => parse.res = "Ok"

\* C5 as amended: from_bytes fails with HeaderLen for h = 19, 0 and 64 and
\* succeeds for h = 20, 60 and 61 (the setter keeps h >> 2 in the four bits
\* of the data offset, so 61 is stored as 60).
C5_Amended ==
    /\ \A h \in {19, 0, 64} : C5_Case(h) => parse.res = "HeaderLen"
    /\ \A h \in {20, 60, 61} : C5_Case(h) => parse.res = "Ok"

\* C5's case: the header length was set to 61 on a buffer of exactly 60
\* bytes and from_bytes accepted it.
C5_Witness == C5_Case(61) /\ Len(buf) = 60 /\ parse.res = "Ok"

\* C6: after finalize or write_segment with Some((src, dst)), the stored
\* checksum is compute_checksum over the segment with its checksum field set
\* to 0, and compute_checksum over the segment as it stands is 0, whatever
\* the checksum bytes of the buffer held before and for odd lengths too.
C6_Checksum ==
    FinishedWithChecksum
    => LET src == Unwrap(call.final.compute)[1]
           dst == Unwrap(call.final.compute)[2]
       IN  /\ checksum(View) = compute_checksum(set_checksum(View, 0), src, dst)
           /\ compute_checksum(View, src, dst) = 0

\* C6's case: a finished segment of odd length, written over checksum bytes
\* that held 0x0101, with a stored checksum that is not 0.
C6_Witness ==
    /\ FinishedWithChecksum
    /\ seg.len % 2 = 1
    /\ checksum(prior) = 257
    /\ checksum(View) # 0

\* C7: once one payload byte of a segment written with Some((src, dst)) is
\* changed to a different value, from_bytes with the same addresses fails
\* with Checksum and from_bytes without verification still succeeds.
C7_ChecksumMismatch ==
    (seg.kind = "segment" /\ tamper.kind = "flip" /\ IsSome(call.final.compute)
        /\ parse.called)
    => /\ parse.verify = call.final.compute => parse.res = "Checksum"
       /\ ~IsSome(parse.verify) => parse.res = "Ok"

\* C7's case: the last payload byte, a 255, of a segment of odd length was
\* changed to 0 and from_bytes has verified the checksum.
C7_Witness ==
    /\ seg.kind = "segment" /\ tamper.kind = "flip" /\ IsSome(call.final.compute)
    /\ parse.called /\ parse.verify = call.final.compute /\ parse.res = "Checksum"
    /\ tamper.off = seg.len - 1 /\ seg.len % 2 = 1 /\ tamper.val = 0

\* C8 as stated: a write call fails with SliceTooShort whenever the buffer
\* is shorter than 20 + (4 with an MSS option), in particular for a 1-byte
\* buffer and every nonzero mss_remaining, with or without the option.
C8_Original ==
    (call.res # "none" /\ Len(prior) < CallH) => call.res = "SliceTooShort"

\* C8 as amended: a write call fails with SliceTooShort whenever the buffer
\* is shorter than 20 + (4 with an MSS option) and the MssRemaining check,
\* which comes first, passes: no MSS option, or mss_remaining >= 4.
C8_Amended ==
    (call.res # "none" /\ Len(prior) < CallH
        /\ (~IsSome(call.a.mss_option) \/ call.a.mss_remaining >= 4))
    => call.res = "SliceTooShort"

\* C8's case: a buffer long enough for the header but not for the option.
C8_Witness ==
    /\ call.res = "SliceTooShort" /\ Len(prior) = 23 /\ IsSome(call.a.mss_option)
    /\ call.a.mss_remaining = 4

\* C9: a write call fails with MssRemaining exactly when an MSS option is
\* requested and mss_remaining < 4, whatever the size of the buffer; without
\* the option it never does, even for mss_remaining = 0.
C9_MssRemaining ==
    call.res # "none"
    => (call.res = "MssRemaining"
          <=> (IsSome(call.a.mss_option) /\ call.a.mss_remaining < 4))

\* C9's case: MssRemaining for mss_remaining = 3 on a buffer with room.
C9_Witness ==
    /\ call.res = "MssRemaining" /\ call.a.mss_remaining = 3 /\ Len(prior) > 24

Min4(a, b, c, d) == Min(Min(a, b), Min(c, d))

\* What C10 states of a successful write call when the writer has room
\* bytes of the buffer after the header: the count of payload bytes, the
\* bytes copied and the length of the segment.
C10_Holds(room) ==
    LET count == IF IsSome(call.a.payload)
                 THEN Min4(ByteBuffer_len(Unwrap(call.a.payload)[1]),
                           Unwrap(call.a.payload)[2], room,
                           call.a.mss_remaining - CallO)
                 ELSE 0
    IN  /\ call.copied = count
        /\ IsSome(call.a.payload)
           => SubSeq(buf, CallH + 1, CallH + count)
                = PayloadPrefix(Unwrap(call.a.payload)[1], count)
        /\ len(View) = CallH + count
        /\ len(View) <= Len(buf)

Written == call.res = "Ok" /\ tamper.kind = "none"

\* C10 as stated: a successful write call copies exactly
\* min(p.len(), max, buf.len() - H, mss_remaining - O) payload bytes, the
\* first bytes of p, to offset H, and the segment's len() is H + that count.
C10_Original == Written => C10_Holds(Len(buf) - CallH)

\* C10 as amended: the same with the buffer counted as len() counts it,
\* min(buf.len(), 65535) - H.
C10_Amended == Written => C10_Holds(Min(Len(buf), U16_MAX) - CallH)

\* C10's case: the payload of 2000 bytes of the source's test, cut to the
\* 1460 bytes of the buffer.
C10_Witness ==
    /\ Written /\ Len(buf) = 1460 /\ len(View) = 1460
    /\ ByteBuffer_len(Unwrap(call.a.payload)[1]) = 2000
    /\ call.copied = 1436

\* The two checks that write_incomplete_segment makes before EmptyPayload,
\* in the words of the arguments of the call.
ChecksPass ==
    /\ ~(IsSome(call.a.mss_option) /\ call.a.mss_remaining < 4)
    /\ Len(prior) >= CallH

\* The room C11 computes for a supplied payload.
C11_Room ==
    Min4(ByteBuffer_len(Unwrap(call.a.payload)[1]), Unwrap(call.a.payload)[2],
         Len(prior) - CallH, call.a.mss_remaining - CallO)

\* C11: a write call fails with EmptyPayload exactly when the MssRemaining
\* and SliceTooShort checks pass, a payload is supplied and
\* min(payload length, max readable bytes, buf.len() - header and options,
\* mss_remaining - option cost) is 0; with payload None it never returns
\* EmptyPayload and, the checks passing, succeeds with a payload of length 0.
C11_EmptyPayload ==
    call.res # "none"
    => /\ call.res = "EmptyPayload"
            <=> (ChecksPass /\ IsSome(call.a.payload) /\ C11_Room = 0)
       /\ (~IsSome(call.a.payload) /\ ChecksPass)
            => (call.res = "Ok" /\ call.copied = 0 /\ seg.len = CallH)

\* C11's case: a payload with bytes to read and a budget to send them, and
\* a buffer that the header and the option fill.
C11_Witness ==
    /\ call.res = "EmptyPayload"
    /\ Len(prior) = 24 /\ IsSome(call.a.mss_option)
    /\ call.a.mss_remaining = U16_MAX
    /\ ByteBuffer_len(Unwrap(call.a.payload)[1]) = 4
    /\ Unwrap(call.a.payload)[2] = 2

\* C18: when a write call fails with MssRemaining or SliceTooShort, no byte
\* of the buffer has been modified.
C18_NoWriteBeforeChecks ==
    call.res \in {"MssRemaining", "SliceTooShort"} => buf = prior

\* C18's case: MssRemaining on a buffer with room for the whole header, and
\* whose bytes differ from the header the call would have written.
C18_Witness ==
    /\ call.res = "MssRemaining" /\ Len(prior) = 24 /\ buf = prior
    /\ sequence_number(prior) # call.a.seq_number

\* The options region of the segment under the scan.
ScanOptions == options_unchecked(View, scan.hl)
ScanDone == scan.pc = "done"

RECURSIVE C13_Expected(_, _, _)
C13_Expected(o, i, fuel) ==
    IF i + 4 > Len(o) THEN OkNone
    ELSE IF fuel = 0 THEN NoResult
    ELSE IF o[i + 1] = 0 THEN OkNone
    ELSE IF o[i + 1] = 2
    THEN (IF 256 * o[i + 3] + o[i + 4] >= 100
          THEN OkSome(256 * o[i + 3] + o[i + 4]) ELSE ErrMssOption)
    ELSE IF o[i + 1] = 1 THEN C13_Expected(o, i + 1, fuel - 1)
    ELSE C13_Expected(o, i + o[i + 2], fuel - 1)

\* C13: the scan is decided by the first EOL or MSS kind it reaches while at
\* least 4 option bytes remain: an EOL yields Ok(None) even when an MSS
\* option follows; an MSS kind yields the result of its own value, whatever
\* its length byte and whatever follows, a second MSS option included; NOP
\* advances by 1 and any other kind by its length byte; an MSS kind with
\* fewer than 4 bytes left is ignored.
C13_FirstDecides ==
    ScanDone
    => LET o == ScanOptions
       IN  /\ scan.res = C13_Expected(o, 0, MaxIters + 1)
           /\ (Len(o) >= 4 /\ o[1] = 0) => scan.res = OkNone
           /\ (Len(o) >= 4 /\ o[1] = 2)
              => scan.res = IF 256 * o[3] + o[4] >= 100
                            THEN OkSome(256 * o[3] + o[4]) ELSE ErrMssOption
           /\ (Len(o) = 4 /\ o[1] = 1 /\ o[2] = 2) => scan.res = OkNone
           /\ (Len(o) = 8 /\ SubSeq(o, 1, 4) = <<1, 1, 1, 3>> /\ o[6] = 0 /\ o[7] = 2)
              => scan.res = OkNone

\* C13's case: the scan has returned the value 256 of a first MSS kind whose
\* length byte is 0 and that a second MSS option, of value 99, follows.
C13_Witness ==
    /\ ScanDone /\ ScanOptions = <<2, 0, 1, 0, 2, 4, 0, 99>>
    /\ scan.res = OkSome(256)

\* C13's other case: an unknown kind has been skipped by its length byte and
\* the MSS kind it lands before is too close to the end to be read.
C13_SkipWitness ==
    /\ ScanDone /\ ScanOptions = <<1, 1, 1, 3, 3, 0, 2, 4>>
    /\ scan.i = 6 /\ scan.res = OkNone


\* What C14 states of the bytes of a written segment: header_len() is 24
\* with the option and 20 without, and the option bytes are kind 2, length 4
\* and the value in big-endian.
C14_Header ==
    Finished
    => /\ header_len(View) = CallH
       /\ IsSome(call.a.mss_option)
          => /\ header_len(View) = 24
             /\ At(View, 20) = 2 /\ At(View, 21) = 4
             /\ At(View, 22) = Unwrap(call.a.mss_option) \div 256
             /\ At(View, 23) = Unwrap(call.a.mss_option) % 256
       /\ ~IsSome(call.a.mss_option) => header_len(View) = 20

\* The scan of a written segment that from_bytes accepted has returned.
C14_Parsed == Finished /\ parse.res = "Ok" /\ ScanDone

\* C14 as stated: for every mss_option value v for which write_segment
\* succeeds, the header is as C14_Header says and from_bytes followed by
\* parse_mss_option_unchecked(24) returns Ok(Some(v)); with mss_option None
\* the parse returns Ok(None).
C14_Original ==
    /\ C14_Header
    /\ C14_Parsed
       => /\ scan.hl = CallH
          /\ scan.res = IF IsSome(call.a.mss_option)
                        THEN OkSome(Unwrap(call.a.mss_option)) ELSE OkNone

\* C14 as amended: the same for every v >= 100; for v < 100 write_segment
\* succeeds and writes the same bytes, and the parse returns Err(MssOption).
C14_Amended ==
    /\ C14_Header
    /\ C14_Parsed
       => /\ scan.hl = CallH
          /\ scan.res = IF ~IsSome(call.a.mss_option) THEN OkNone
                        ELSE IF Unwrap(call.a.mss_option) >= 100
                        THEN OkSome(Unwrap(call.a.mss_option))
                        ELSE ErrMssOption

\* C14's case: a segment written with mss_option 99 and a payload has been
\* verified by from_bytes and its scan has returned Err(MssOption).
C14_Witness ==
    /\ C14_Parsed /\ IsSome(parse.verify)
    /\ call.a.mss_option = Some(99) /\ call.copied = 2
    /\ scan.res = ErrMssOption

\* The case of the source's test: mss_option 1460 is read back as 1460.
C14_TestWitness ==
    /\ C14_Parsed /\ IsSome(parse.verify)
    /\ call.a.mss_option = Some(1460) /\ call.copied = 2
    /\ scan.res = OkSome(1460)


\* The offsets of the ports and of the checksum.
PortOffsets == 0 .. 3
ChecksumOffsets == {16, 17}

\* The bytes of b from offset n on.
Beyond(b, n) == SubSeq(b, n + 1, Len(b))

\* What C15 states of the buffer a write call leaves, against the bytes it
\* held before: a staged segment (and a failed call) has the caller's bytes
\* at the offsets of the ports and of the checksum; a segment finished
\* without a checksum has the caller's bytes in the checksum field; nothing
\* at or beyond the segment's length has changed.
C15_Buffer ==
    (call.res # "none" /\ tamper.kind = "none")
    => /\ ~call.final.done
          => \A k \in PortOffsets \cup ChecksumOffsets :
                k < Len(buf) => At(buf, k) = At(prior, k)
       /\ (call.final.done /\ ~IsSome(call.final.compute))
          => checksum(buf) = checksum(prior)
       /\ call.res = "Ok" => Beyond(buf, seg.len) = Beyond(prior, seg.len)

\* What C15 states of a finalize step: the bytes it changes are among those
\* of the ports, and of the checksum when compute_checksum is Some.
C15_FinalizeStep ==
    (seg.kind = "incomplete" /\ seg'.kind = "segment")
    => \A k \in 0 .. Len(buf) - 1 :
          At(buf', k) # At(buf, k)
          => k \in PortOffsets
                   \cup (IF IsSome(call.final.compute) THEN ChecksumOffsets ELSE {})

\* C15: write_incomplete_segment never modifies offsets 0-3 and 16-17 of the
\* buffer; finalize modifies only offsets 0-3, and 16-17 when
\* compute_checksum is Some; so after write_segment without a checksum the
\* checksum field holds the buffer's prior content, and no byte at or beyond
\* the length of the produced segment is ever modified.
C15_Frame == []C15_Buffer /\ [][C15_FinalizeStep]_vars

\* C15's case: a segment finished without a checksum in a buffer longer than
\* the segment: the ports are new and the checksum field holds the 0xFFFF it
\* held before.
C15_Witness ==
    /\ Finished /\ ~IsSome(call.final.compute)
    /\ Len(buf) > seg.len
    /\ checksum(buf) = 65535 /\ checksum(prior) = 65535
    /\ source_port(buf) = 1234 /\ source_port(prior) = 65535


\* The value that the getter of field f returns on the bytes b, in the form
\* its setter was given it.
Getter(f, b) ==
    CASE f = "source_port" -> source_port(b)
      [] f = "destination_port" -> destination_port(b)
      [] f = "sequence_number" -> sequence_number(b)
      [] f = "ack_number" -> ack_number(b)
      [] f = "flags_after_ns" -> flags_after_ns(b)
      [] f = "window_size" -> window_size(b)
      [] f = "checksum" -> checksum(b)
      [] f = "urgent_pointer" -> urgent_pointer(b)

\* C16: on a buffer of at least 20 bytes, after any sequence of header
\* setters, each getter returns the value most recently given to its own
\* setter, whatever the setters of the other fields were given; after
\* set_header_len_rsvd_ns(h, ns) with h a multiple of 4 in 0..=60,
\* header_len_rsvd_ns() returns (h, 0, ns).
C16_SetGet ==
    /\ \A f \in Fields \ {"header_len_rsvd_ns"} :
          IsSome(call.set[f]) => Getter(f, buf) = Unwrap(call.set[f])
    /\ IsSome(call.set["header_len_rsvd_ns"])
       => LET h == Unwrap(call.set["header_len_rsvd_ns"])[1]
              ns == Unwrap(call.set["header_len_rsvd_ns"])[2]
          IN  /\ header_len_rsvd_ns(buf) = <<h, 0, ns>>
              /\ header_len(buf) = h

\* C16's case: every setter has been called on a buffer of 255s, the header
\* length with (60, true) as in the source's test and the flags with every
\* bit set.
C16_Witness ==
    /\ \A f \in Fields : IsSome(call.set[f])
    /\ prior = Fill(20, 255)
    /\ call.set["header_len_rsvd_ns"] = Some(<<60, TRUE>>)
    /\ call.set["flags_after_ns"] = Some(255)
    /\ header_len_rsvd_ns(buf) = <<60, 0, TRUE>>
    /\ window_size(buf) = 60000


\* C17: for every segment accepted by from_bytes, header_len() <= len(), so
\* payload_len() = len() - header_len() never underflows, and payload_len()
\* equals payload().len() whenever the buffer is at most 65535 bytes long
\* (len() saturates at 65535 for a longer one).
C17_PayloadLen ==
    parse.res = "Ok"
    => /\ header_len(View) <= len(View)
       /\ payload_len(View) >= 0
       /\ Len(View) <= 65535 => payload_len(View) = Len(payload(View))
       /\ Len(View) > 65535 => len(View) = 65535
       /\ parse.payload.called
          => (Len(View) <= 65535 => payload_len(View) = parse.payload.size)

\* C17's case: payload() was taken on an accepted segment whose header, with
\* its options, ends one byte before the buffer does.
C17_Witness ==
    /\ parse.res = "Ok" /\ parse.payload.called
    /\ header_len(View) = 28 /\ Len(View) = 29
    /\ payload_len(View) = 1 /\ parse.payload.size = 1

\* C17's other case: on an accepted buffer of 65540 bytes len() is 65535 and
\* payload_len() is 5 below payload().len().
C17_LongWitness ==
    /\ parse.res = "Ok" /\ parse.payload.called
    /\ Len(View) = 65540 /\ len(View) = 65535
    /\ payload_len(View) = 65515 /\ parse.payload.size = 65520


=============================================================================
